---- MODULE Spec2Model ----
(***************************************************************************)
(* Model of scripts/vehicle_simulator.py (class VehicleSimulator).         *)
(*                                                                         *)
(* Numbers.  The program computes in IEEE doubles.  The model computes in  *)
(* decimal fixed point with six fractional digits: the integer n stands    *)
(* for the real n / 10^6 (metres, radians, seconds and their rates).       *)
(* Lateral forces, which reach 10^5 N, are held with three fractional      *)
(* digits (the integer n stands for n / 10^3 newton).  Every product and   *)
(* quotient is rounded to the nearest unit, halves away from zero, and is  *)
(* computed without leaving the 32-bit range of TLC's integers.             *)
(* sin, cos and arctan2 are computed by range reduction and truncated      *)
(* power series, accurate to about two units (2e-6).                       *)
(***************************************************************************)
EXTENDS Integers, Sequences, FiniteSets, TLC

----------------------------------------------------------------------------
(* Fixed-point arithmetic                                                  *)

Q == 1000 * 1000            \* units per 1.0
K == 10 * 10 * 10           \* split radix of MulQ; force units per newton

Abs(a) == IF a < 0 THEN -a ELSE a
Sgn(a) == IF a > 0 THEN 1 ELSE IF a < 0 THEN -1 ELSE 0
Max(a, b) == IF b > a THEN b ELSE a

\* round(a * b / c) for c > 0, with c * |b| inside the integer range
MulDiv(a, b, c) ==
    LET A == Abs(a)
        B == Abs(b)
    IN  Sgn(a) * Sgn(b) * ((A \div c) * B + ((A % c) * B + c \div 2) \div c)

\* round(a * b / Q): the product of two fixed-point numbers
MulQ(a, b) ==
    LET A  == Abs(a)
        B  == Abs(b)
        ah == A \div K
        al == A % K
        bh == B \div K
        bl == B % K
    IN  Sgn(a) * Sgn(b)
          * (ah * bh + ((ah * bl + al * bh) + (al * bl + Q \div 2) \div K) \div K)

\* floor(r * 10^k / b) for 0 <= r < b: k decimal digits of the quotient r / b
RECURSIVE DivDigits(_, _, _)
DivDigits(r, b, k) ==
    IF k = 0 THEN 0
    ELSE LET t == r * 10
             p == DivDigits(t % b, b, k - 1)
         IN  IF k = 1 THEN t \div b
             ELSE IF k = 2 THEN (t \div b) * 10 + p
             ELSE IF k = 3 THEN (t \div b) * 100 + p
             ELSE IF k = 4 THEN (t \div b) * 1000 + p
             ELSE IF k = 5 THEN (t \div b) * 10000 + p
             ELSE (t \div b) * 100000 + p

\* a / b as a fixed-point number, for 0 <= a <= b, b > 0
DivQ(a, b) == IF a = b THEN Q ELSE DivDigits(a, b, 6)

----------------------------------------------------------------------------
(* numpy's pi, sin, cos, arctan2                                           *)

PI == 3141593
TwoPi == 2 * PI
HalfPi == PI \div 2
QuarterPi == PI \div 4

\* sin x on [0, pi/4]: x (1 - x^2/6 (1 - x^2/20 (1 - x^2/42)))
SinSeries(x) ==
    LET x2 == MulQ(x, x)
        t1 == Q - x2 \div 42
        t2 == Q - MulQ(x2, t1) \div 20
        t3 == Q - MulQ(x2, t2) \div 6
    IN  MulQ(x, t3)

\* cos x on [0, pi/4]: 1 - x^2/2 (1 - x^2/12 (1 - x^2/30 (1 - x^2/56)))
CosSeries(x) ==
    LET x2 == MulQ(x, x)
        t1 == Q - x2 \div 56
        t2 == Q - MulQ(x2, t1) \div 30
        t3 == Q - MulQ(x2, t2) \div 12
    IN  Q - MulQ(x2, t3) \div 2

\* sin and cos on the first quadrant [0, pi/2]
SinQuad(x) == IF x <= QuarterPi THEN SinSeries(x) ELSE CosSeries(HalfPi - x)
CosQuad(x) == IF x <= QuarterPi THEN CosSeries(x) ELSE SinSeries(HalfPi - x)

Sin(a) ==
    LET r == a % TwoPi
    IN  IF r < HalfPi THEN SinQuad(r)
        ELSE IF r < PI THEN SinQuad(PI - r)
        ELSE IF r < PI + HalfPi THEN -SinQuad(r - PI)
        ELSE -SinQuad(TwoPi - r)

Cos(a) ==
    LET r == a % TwoPi
    IN  IF r < HalfPi THEN CosQuad(r)
        ELSE IF r < PI THEN -CosQuad(PI - r)
        ELSE IF r < PI + HalfPi THEN -CosQuad(r - PI)
        ELSE CosQuad(TwoPi - r)

\* arctan t for 0 <= t <= tan(pi/8): t (1 - t^2 (1/3 - t^2 (1/5 - ...)))
AtanSeries(t) ==
    LET t2 == MulQ(t, t)
        u1 == 111111 - MulQ(t2, 90909)
        u2 == 142857 - MulQ(t2, u1)
        u3 == 200000 - MulQ(t2, u2)
        u4 == 333333 - MulQ(t2, u3)
    IN  MulQ(t, Q - MulQ(t2, u4))

\* arctan t for 0 <= t <= 1, using arctan t = pi/4 - arctan((1 - t)/(1 + t))
AtanUnit(t) ==
    IF t <= 414214 THEN AtanSeries(t)
    ELSE QuarterPi - AtanSeries(DivQ(Q - t, Q + t))

\* arctan(y / x) for y >= 0, x > 0
AtanPos(y, x) ==
    IF y <= x THEN AtanUnit(DivQ(y, x)) ELSE HalfPi - AtanUnit(DivQ(x, y))

\* np.arctan2(y, x)
Arctan2(y, x) ==
    IF x > 0 THEN Sgn(y) * AtanPos(Abs(y), x)
    ELSE IF x < 0 THEN (IF y >= 0 THEN PI - AtanPos(Abs(y), -x)
                                  ELSE -(PI - AtanPos(Abs(y), -x)))
    ELSE Sgn(y) * HalfPi

----------------------------------------------------------------------------
(* Constants of the program                                                *)

lf == 1152000               \* 1.152 m, CoG to front axle
lr == 1693000               \* 1.693 m, CoG to rear axle
m == 1840                   \* kg, an integer literal in the source
Iz == 3477                  \* kg m^2, an integer literal in the source
C_alpha_f == 40703          \* 4.0703e4 N/rad
C_alpha_r == 64495          \* 6.4495e4 N/rad
dt_model == 10000           \* 0.01 s
disc_steps == 10            \* default argument of _update_vehicle_model
Eps == 1                    \* 1e-6, the speed threshold of both guards
kp == 5                     \* 5.0 1/s, the gain of the low-level control

hz == Q \div dt_model               \* int(1.0 / self.dt_model)
deltaT == dt_model \div disc_steps  \* self.dt_model / disc_steps

\* "1/m" in "1/m*Fyf*np.sin(self.df)": m is an int and the script is
\* Python 2 (print statements), so this is integer division and yields 0.
\* The other two quotients of the step are written 1.0/m and 1.0/Iz.
OneOverM == 1 \div m

\* rospy.get_param defaults
X0 == -300 * Q
Y0 == -450 * Q
Psi0 == 1 * Q

----------------------------------------------------------------------------
(* Bounds of the model                                                     *)

MaxTicks == 2               \* ticks of pub_loop explored by Spec
MaxCmds == 2                \* commands delivered in a run of Spec
MaxInFlight == 2            \* loop steps taken while a callback is between
                            \*   its two writes
MaxHoldTicks == 101         \* ticks explored by SpecHold
MaxLineTicks == 10          \* ticks explored by SpecLine
MaxTurnCmds == 1            \* commands delivered in a run of SpecHeading

\* headings the parameter server may hold besides the default: two outside
\* [-pi, pi), its lower end, and the last value below its upper end
Psi0Set == {4 * Q, -7 * Q, -PI, PI - 1}

Cmd(a, d) == [accel_cmd |-> a, steer_angle_cmd |-> d]

\* commands the MPC node may send
Cmds == {Cmd(2 * Q, 300000), Cmd(-20 * Q, -300000), Cmd(0, 0)}
HoldCmds == {Cmd(1 * Q, 100000), Cmd(100000, -50000)}
LineCmds == {Cmd(1 * Q, 0)}
TurnCmds == {Cmd(2 * Q, 300000)}

----------------------------------------------------------------------------
(* State                                                                   *)

VARIABLES
    X, Y, psi, vx, vy, wz,  \* self.X .. self.wz
    acc, df,                \* actual acceleration and steering angle
    acc_des, df_des,        \* desired values, written by the callback
    tcmd,                   \* <<>> (None) or <<time of the last command>>
    pc, i,                  \* position of pub_loop; sub-step index
    now,                    \* rospy time, in ticks of the rate
    cb,                     \* <<>> or <<msg>>: a callback between lines 55 and 56
    lagged,                 \* loop steps taken since that callback began
    out,                    \* <<>> or <<the last published state_est>>
    steps, pubs,            \* history: sub-steps committed, messages published
    received,               \* history: commands whose callback has started
    last,                   \* history: the command whose callback completed last
    held, err0,             \* history: sub-steps under the command held now,
                            \*   and the actuation error when it began to hold
    restAt                  \* history: <<>> or <<the state in which the vehicle
                            \*   was first at rest under the zero command>>

dyn == <<X, Y, psi, vx, vy, wz>>
vars == <<X, Y, psi, vx, vy, wz, acc, df, acc_des, df_des, tcmd, pc, i, now,
          cb, lagged, out, steps, pubs, received, last, held, err0, restAt>>

----------------------------------------------------------------------------
(* _update_vehicle_model: one pass of the loop body, on the current state  *)

\* tire slip angles
alpha_f ==
    IF Abs(vx) > Eps THEN df - Arctan2(vy + MulQ(lf, wz), vx) ELSE 0
alpha_r ==
    IF Abs(vx) > Eps THEN -Arctan2(vy - MulQ(lf, wz), vx) ELSE 0

\* lateral tire forces, in units of 1/K newton
Fyf == MulDiv(alpha_f, C_alpha_f, K)
Fyr == MulDiv(alpha_r, C_alpha_r, K)

\* mutants of vx_n: the clamp left out; the clamp written as an absolute value
vx_n_noclamp(F_f) ==
    vx + MulQ(deltaT, acc - OneOverM * MulQ(F_f, Sin(df)) * K + MulQ(wz, vy))

vx_n_abs(F_f) ==
    Abs(vx + MulQ(deltaT, acc - OneOverM * MulQ(F_f, Sin(df)) * K
                            + MulQ(wz, vy)))

\* next forward speed, from the front force F_f
vx_n(F_f) ==
    Max(0, vx + MulQ(deltaT, acc - OneOverM * MulQ(F_f, Sin(df)) * K
                                + MulQ(wz, vy)))

\* next lateral speed and yaw rate, from the next forward speed and the forces
vy_n(vxn, F_f, F_r) ==
    IF vxn > Eps
    THEN vy + MulQ(deltaT, MulDiv(MulQ(F_f, Cos(df)) + F_r, K, m)
                             - MulQ(wz, vx))
    ELSE 0

\* mutant of wz_n: the yaw rate is not zeroed near a stop
wz_n_nozero(vxn, F_f, F_r) ==
    wz + MulQ(deltaT, MulDiv(MulQ(MulQ(lf, F_f), Cos(df))
                               - MulQ(lr, F_r), K, Iz))

wz_n(vxn, F_f, F_r) ==
    IF vxn > Eps
    THEN wz + MulQ(deltaT, MulDiv(MulQ(MulQ(lf, F_f), Cos(df))
                                    - MulQ(lr, F_r), K, Iz))
    ELSE 0

\* mutant of psi_n: semi-implicit Euler, the heading advanced by the new yaw rate
psi_n_semi == psi + MulQ(deltaT, wz_n(vx_n(Fyf), Fyf, Fyr))

psi_n == psi + MulQ(deltaT, wz)
X_n == X + MulQ(deltaT, MulQ(vx, Cos(psi)) - MulQ(vy, Sin(psi)))
\* mutant of Y_n: sin and cos exchanged
Y_n_swapped == Y + MulQ(deltaT, MulQ(vx, Cos(psi)) + MulQ(vy, Sin(psi)))

Y_n == Y + MulQ(deltaT, MulQ(vx, Sin(psi)) + MulQ(vy, Cos(psi)))

\* mutant of Wrap: the remainder truncated toward zero, as C's fmod
Wrap_fmod(theta) ==
    (IF theta + PI >= 0 THEN (theta + PI) % TwoPi
     ELSE -((-(theta + PI)) % TwoPi)) - PI

\* (psi_n + np.pi) % (2.0 * np.pi) - np.pi; Python's % takes the divisor's sign
Wrap(theta) == ((theta + PI) % TwoPi) - PI

\* mutant of Lag: the gain left out
Lag_nogain(actual, desired, dt_control) ==
    MulQ(desired - actual, dt_control) + actual

\* _update_low_level_control: one first-order step of actual toward desired
Lag(actual, desired, dt_control) ==
    MulQ(kp * (desired - actual), dt_control) + actual

\* mutant of MoreSteps: one pass too many
MoreSteps_extra(k) == k <= disc_steps

\* for i in range(disc_steps)
MoreSteps(k) == k < disc_steps

----------------------------------------------------------------------------
(* History variables: they record the run and drive nothing                *)

\* a write of the command pair restarts the hold; a sub-step that is between
\* its two lag updates (pc = "lag") does not count towards the new hold
HoldReset ==
    /\ held' = IF pc = "lag" THEN -1 ELSE 0
    /\ err0' = [acc |-> acc_des' - acc, df |-> df_des' - df]

\* the first state at rest since the zero command began to hold
RestUpdate ==
    restAt' =
        IF acc_des' # 0 \/ df_des' # 0 THEN <<>>
        ELSE IF restAt # <<>> THEN restAt
        ELSE IF vx' = 0 /\ vy' = 0 /\ wz' = 0
             THEN <<[X |-> X', Y |-> Y', psi |-> psi', acc |-> acc']>>
        ELSE <<>>

\* the loop thread runs; a callback caught between its two writes waits for
\* at most MaxInFlight steps of the loop
Preempt ==
    /\ cb = <<>> \/ lagged < MaxInFlight
    /\ lagged' = IF cb = <<>> THEN 0 ELSE lagged + 1

----------------------------------------------------------------------------
(* Construction                                                            *)

InitAt(x0, y0, headings) ==
    /\ X = x0 /\ Y = y0 /\ psi \in headings
    /\ vx = 0 /\ vy = 0 /\ wz = 0
    /\ acc = 0 /\ df = 0 /\ acc_des = 0 /\ df_des = 0
    /\ tcmd = <<>>
    /\ pc = "loop" /\ i = 0 /\ now = 0
    /\ cb = <<>> /\ lagged = 0 /\ out = <<>>
    /\ steps = 0 /\ pubs = 0 /\ received = <<>>
    /\ last = Cmd(0, 0)
    /\ held = 0 /\ err0 = [acc |-> 0, df |-> 0]
    /\ restAt = <<[X |-> X, Y |-> Y, psi |-> psi, acc |-> acc]>>

Init == InitAt(X0, Y0, {Psi0})

----------------------------------------------------------------------------
(* pub_loop                                                                *)

\* while not rospy.is_shutdown(): the test passes, _update_vehicle_model begins
LoopTest(horizon) ==
    /\ pc = "loop" /\ now < horizon
    /\ Preempt
    /\ pc' = IF MoreSteps(0) THEN "step" ELSE "pub"
    /\ i' = 0
    /\ UNCHANGED <<dyn, acc, df, acc_des, df_des, tcmd, now, cb, out, steps,
                   pubs, received, last, held, err0, restAt>>

\* the test fails: the node has been shut down
Shutdown ==
    /\ pc = "loop"
    /\ Preempt
    /\ pc' = "done"
    /\ UNCHANGED <<dyn, acc, df, acc_des, df_des, tcmd, i, now, cb, out, steps,
                   pubs, received, last, held, err0, restAt>>

\* one pass of the for loop up to and including the first assignment of
\* _update_low_level_control (the read of acc_des)
Integrate ==
    /\ pc = "step"
    /\ Preempt
    /\ LET F_f == Fyf
           F_r == Fyr
           vxn == vx_n(F_f)
       IN  /\ vx' = vxn
           /\ vy' = vy_n(vxn, F_f, F_r)
           /\ wz' = wz_n(vxn, F_f, F_r)
    /\ X' = X_n /\ Y' = Y_n /\ psi' = Wrap(psi_n)
    /\ acc' = Lag(acc, acc_des, deltaT)
    /\ pc' = "lag"
    /\ UNCHANGED <<df, acc_des, df_des, tcmd, i, now, cb, out, steps, pubs,
                   received, last, held, err0>>
    /\ RestUpdate

\* the second assignment of _update_low_level_control (the read of df_des);
\* the sub-step is complete
LagDf ==
    /\ pc = "lag"
    /\ Preempt
    /\ df' = Lag(df, df_des, deltaT)
    /\ i' = i + 1
    /\ pc' = IF MoreSteps(i + 1) THEN "step" ELSE "pub"
    /\ steps' = steps + 1
    /\ held' = held + 1
    /\ err0' = IF held = -1 THEN [acc |-> acc_des - acc, df |-> df_des - df']
               ELSE err0
    /\ UNCHANGED <<dyn, acc, acc_des, df_des, tcmd, now, cb, out, pubs,
                   received, last, restAt>>

\* the state_est message built by pub_loop
StateEst ==
    [stamp |-> now, x |-> X, y |-> Y, psi |-> psi, v |-> vx, a |-> acc,
     df |-> df]

Publish ==
    /\ pc = "pub"
    /\ Preempt
    /\ out' = <<StateEst>>
    /\ pubs' = pubs + 1
    /\ pc' = "sleep"
    /\ UNCHANGED <<dyn, acc, df, acc_des, df_des, tcmd, i, now, cb, steps,
                   received, last, held, err0, restAt>>

\* mutant of Sleep: a watchdog that zeroes a command older than one tick
Sleep_watchdog ==
    /\ pc = "sleep"
    /\ Preempt
    /\ now' = now + 1
    /\ pc' = "loop"
    /\ IF tcmd # <<>> /\ tcmd[1] < now
       THEN acc_des' = 0 /\ df_des' = 0
       ELSE UNCHANGED <<acc_des, df_des>>
    /\ UNCHANGED <<dyn, acc, df, tcmd, i, cb, out, steps, pubs, received,
                   last, held, err0, restAt>>

\* self.r.sleep()
Sleep ==
    /\ pc = "sleep"
    /\ Preempt
    /\ now' = now + 1
    /\ pc' = "loop"
    /\ UNCHANGED <<dyn, acc, df, acc_des, df_des, tcmd, i, cb, out, steps,
                   pubs, received, last, held, err0, restAt>>

----------------------------------------------------------------------------
(* _mpc_cmd_callback, which rospy runs on its own thread                   *)

\* mutant of CmdArrive: the callback also sets the actual acceleration
CmdArrive_direct(msg, budget) ==
    /\ cb = <<>> /\ Len(received) < budget
    /\ tcmd' = <<now>>
    /\ acc_des' = msg.accel_cmd
    /\ acc' = msg.accel_cmd
    /\ cb' = <<msg>> /\ lagged' = 0
    /\ received' = Append(received, msg)
    /\ UNCHANGED <<dyn, df, df_des, pc, i, now, out, steps, pubs, last>>
    /\ HoldReset
    /\ RestUpdate

\* self.tcmd = rospy.Time.now(); self.acc_des = msg.accel_cmd
CmdArrive(msg, budget) ==
    /\ cb = <<>> /\ Len(received) < budget
    /\ tcmd' = <<now>>
    /\ acc_des' = msg.accel_cmd
    /\ cb' = <<msg>> /\ lagged' = 0
    /\ received' = Append(received, msg)
    /\ UNCHANGED <<dyn, acc, df, df_des, pc, i, now, out, steps, pubs, last>>
    /\ HoldReset
    /\ RestUpdate

\* self.df_des = msg.steer_angle_cmd
CmdFinish ==
    /\ cb # <<>>
    /\ df_des' = cb[1].steer_angle_cmd
    /\ cb' = <<>> /\ lagged' = 0
    /\ last' = cb[1]
    /\ UNCHANGED <<dyn, acc, df, acc_des, tcmd, pc, i, now, out, steps, pubs,
                   received>>
    /\ HoldReset
    /\ RestUpdate

----------------------------------------------------------------------------
(* Specifications                                                          *)

\* commands at any time
Next ==
    \/ LoopTest(MaxTicks)
    \/ Shutdown
    \/ Integrate
    \/ LagDf
    \/ Publish
    \/ Sleep
    \/ \E msg \in Cmds : CmdArrive(msg, MaxCmds)
    \/ CmdFinish

Spec == Init /\ [][Next]_vars

\* one command, received before the first sub-step is complete and then
\* held for more than a second
InitHold == InitAt(X0, Y0, {Psi0})

NextHold ==
    \/ LoopTest(MaxHoldTicks)
    \/ Shutdown
    \/ Integrate
    \/ LagDf
    \/ Publish
    \/ Sleep
    \/ \E msg \in HoldCmds : steps = 0 /\ CmdArrive(msg, 1)
    \/ CmdFinish

SpecHold == InitHold /\ [][NextHold]_vars

\* the straight-line scenario: from the origin, heading 0, the command
\* (1.0, 0.0) received during the first two ticks
InitLine == InitAt(0, 0, {0})

NextLine ==
    \/ LoopTest(MaxLineTicks)
    \/ Shutdown
    \/ Integrate
    \/ LagDf
    \/ Publish
    \/ Sleep
    \/ \E msg \in LineCmds : now < 2 /\ CmdArrive(msg, 1)
    \/ CmdFinish

SpecLine == InitLine /\ [][NextLine]_vars

\* any configured heading, one command at any time
InitHeading == InitAt(X0, Y0, Psi0Set)

NextHeading ==
    \/ LoopTest(MaxTicks)
    \/ Shutdown
    \/ Integrate
    \/ LagDf
    \/ Publish
    \/ Sleep
    \/ \E msg \in TurnCmds : CmdArrive(msg, MaxTurnCmds)
    \/ CmdFinish

SpecHeading == InitHeading /\ [][NextHeading]_vars

----------------------------------------------------------------------------
(* Claims                                                                  *)

InRange(theta) == -PI <= theta /\ theta < PI

\* the step just taken is an Integrate step; a complete sub-step
IntegrateStep == pc = "step" /\ pc' = "lag"
CallbackStep == cb' # cb

\* C1: in every reachable state, for any commands at any time, the forward
\* speed vx is >= 0.
C1_NonNegativeSpeed == vx >= 0

\* a sub-step has run at standstill under a negative acceleration, where
\* the unclamped Euler step gives a negative speed
C1_Witness ==
    /\ steps > 0 /\ pc = "lag"
    /\ vx = 0 /\ acc < 0
    /\ MulQ(deltaT, acc) < 0

\* C2: after every sub-step, hence after every tick and in every published
\* message, psi lies in [-pi, pi), whatever heading was configured.
C2_HeadingInRange ==
    /\ (steps > 0 \/ pc = "lag") => InRange(psi)
    /\ out # <<>> => InRange(out[1].psi)

\* a published heading just below pi: the vehicle set out at -pi and
\* turned through the lower end of the range
C2_Witness == out # <<>> /\ out[1].psi > 3 * Q /\ out[1].psi < PI - 1

\* C3 as stated: once the vehicle is at rest (vx = vy = wz = 0) under the
\* zero command, x, y and psi stay as they were for as long as that command
\* is held.
C3_Original ==
    restAt # <<>> =>
        /\ X = restAt[1].X /\ Y = restAt[1].Y /\ psi = restAt[1].psi

RestPre ==
    /\ vx = 0 /\ vy = 0 /\ wz = 0
    /\ acc <= 0 /\ Wrap(psi) = psi
    /\ acc_des = 0 /\ df_des = 0

\* C3 amended: at rest under the zero command with acc <= 0 and psi a fixed
\* point of the heading wrap, every step that keeps the zero command keeps
\* the vehicle at rest with acc <= 0 and leaves x, y and psi unchanged; so
\* they stay as they were at the first such state for as long as the command
\* is held.
C3_RestStable ==
    /\ [][(RestPre /\ acc_des' = 0 /\ df_des' = 0)
            => (RestPre' /\ X' = X /\ Y' = Y /\ psi' = psi)]_vars
    /\ []((restAt # <<>> /\ restAt[1].acc <= 0
                           /\ Wrap(restAt[1].psi) = restAt[1].psi)
            => (X = restAt[1].X /\ Y = restAt[1].Y /\ psi = restAt[1].psi))

\* the vehicle came to hold the zero command at rest with a negative actual
\* acceleration left over from braking, and sub-steps have run since
C3_Witness ==
    /\ restAt # <<>> /\ restAt[1].acc < 0
    /\ held >= 3 /\ RestPre

\* the sub-steps of one second
HoldSteps == hz * disc_steps

\* C4 as stated: after a command has been held for 1 s (hz * disc_steps
\* sub-steps) the actual values are within 1e-3 of the desired ones.
C4_Original ==
    held >= HoldSteps =>
        /\ Abs(acc_des - acc) <= Q \div 1000
        /\ Abs(df_des - df) <= Q \div 1000

\* C4 amended: each sub-step multiplies the error by 1 - 5 * deltaT = 0.995,
\* so after 1 s the error is 0.995^1000 (about 1/150) of the error the hold
\* began with, up to the rounding of the arithmetic (100 units = 1e-4 here).
C4_LagContracts ==
    held >= HoldSteps =>
        /\ Abs(acc_des - acc) <= Abs(err0.acc) \div 150 + 100
        /\ Abs(df_des - df) <= Abs(err0.df) \div 150 + 100

\* a command 1.0 away from the actual acceleration has been held for 1 s
\* and the acceleration is still more than 1e-3 away from it
C4_Witness ==
    /\ held >= HoldSteps
    /\ Abs(err0.acc) = Q
    /\ Abs(acc_des - acc) > Q \div 1000

\* C5: in the straight-line scenario y, vy, wz and psi stay 0 after every
\* step, x never decreases from one step or one published message to the
\* next, and x grows in every sub-step once the speed is resolved by the
\* position's last digit.
C5_StraightLine ==
    /\ [](Y = 0 /\ vy = 0 /\ wz = 0 /\ psi = 0)
    /\ [][X' >= X]_vars
    /\ [][(out # <<>> /\ out' # <<>>) => out'[1].x >= out[1].x]_vars
    /\ [][(IntegrateStep /\ vx >= Q \div (2 * deltaT)) => X' > X]_vars

\* the command has been received and the vehicle has moved forward over
\* several published ticks
C5_Witness ==
    /\ pubs >= 3 /\ out # <<>> /\ out[1].x > 0
    /\ acc_des = 1 * Q /\ vx > 0 /\ X > out[1].x

\* C6: every tick runs exactly 10 sub-steps and then publishes one message;
\* nothing is published before the tenth sub-step is complete; the message
\* carries X, Y, psi, vx, acc, df of the state that sub-step left, and
\* neither vy nor wz.
C6_TickStructure ==
    /\ pc \in {"step", "lag"} => steps = 10 * pubs + i /\ i < 10
    /\ pc = "pub" => steps = 10 * (pubs + 1)
    /\ pc \in {"sleep", "loop", "done"} => steps = 10 * pubs
    /\ pubs = IF pc = "sleep" THEN now + 1 ELSE now
    /\ out = <<>> <=> pubs = 0
    /\ out # <<>> =>
         /\ DOMAIN out[1] = {"stamp", "x", "y", "psi", "v", "a", "df"}
         /\ out[1].stamp = pubs - 1
    /\ (out # <<>> /\ pc \in {"sleep", "loop", "done"}) =>
         /\ out[1].x = X /\ out[1].y = Y /\ out[1].psi = psi
         /\ out[1].v = vx /\ out[1].a = acc /\ out[1].df = df

\* the second tick has published a moving vehicle with lateral motion
C6_Witness ==
    /\ pubs = 2 /\ pc = "sleep"
    /\ out[1].v > 0 /\ vy # 0 /\ wz # 0

\* C7: the desired pair is whatever the callbacks wrote last: between
\* callbacks it is the last completed command (initially 0.0, 0.0), during a
\* callback acc_des is already the new command's; every value is 0.0 or a
\* field of a received command; and no step other than a callback's changes
\* it, however long ago the command arrived.
C7_LastWriteWins ==
    /\ [](/\ cb = <<>> =>
               /\ acc_des = last.accel_cmd
               /\ df_des = last.steer_angle_cmd
          /\ cb # <<>> =>
               /\ acc_des = cb[1].accel_cmd
               /\ df_des = last.steer_angle_cmd
          /\ acc_des \in {0} \cup {received[k].accel_cmd : k \in DOMAIN received}
          /\ df_des \in {0}
               \cup {received[k].steer_angle_cmd : k \in DOMAIN received}
          /\ (received = <<>>) => (acc_des = 0 /\ df_des = 0)
          /\ (received # <<>> /\ cb = <<>>) =>
               last = received[Len(received)])
    /\ [][~CallbackStep => (acc_des' = acc_des /\ df_des' = df_des)]_vars

\* a second, different command replaced the first and has then been held
\* over a tick boundary
C7_Witness ==
    /\ cb = <<>> /\ Len(received) = 2 /\ received[1] # received[2]
    /\ tcmd # <<>> /\ tcmd[1] < now
    /\ held >= 5
    /\ acc_des = received[2].accel_cmd /\ acc_des # 0

\* C8: a step of the callback leaves X, Y, psi, vx, vy, wz, acc, df and the
\* loop's position alone; acc changes only by the lag update of a sub-step,
\* df only by the lag update that completes it.
C8_CallbackFrame ==
    /\ [][CallbackStep =>
            UNCHANGED <<X, Y, psi, vx, vy, wz, acc, df, pc, i, now, out>>]_vars
    /\ [][acc' # acc =>
            (IntegrateStep /\ acc' = MulQ(5 * (acc_des - acc), deltaT) + acc)]_vars
    /\ [][df' # df =>
            (pc = "lag" /\ df' = MulQ(5 * (df_des - df), deltaT) + df)]_vars

\* a callback is between its two writes while the loop is in the middle of
\* a sub-step of a moving vehicle
C8_Witness ==
    /\ cb # <<>> /\ pc = "lag" /\ lagged > 0
    /\ vx > 0 /\ acc # acc_des /\ acc # 0

\* C9: an Integrate step computes every next value from the state before
\* it: psi from the old wz, X and Y from the old vx, vy, psi, vx from the
\* old acc, wz, vy, and vy, wz from the old state's forces (only their guard
\* reads the new vx); acc is advanced after them, df after that, so the
\* step's dynamics never read the new acc or df.
C9_ExplicitEuler ==
    [][IntegrateStep =>
        /\ psi' = ((psi + MulQ(deltaT, wz) + PI) % TwoPi) - PI
        /\ X' = X + MulQ(deltaT, MulQ(vx, Cos(psi)) - MulQ(vy, Sin(psi)))
        /\ Y' = Y + MulQ(deltaT, MulQ(vx, Sin(psi)) + MulQ(vy, Cos(psi)))
        /\ vx' = Max(0, vx + MulQ(deltaT, acc - OneOverM * MulQ(Fyf, Sin(df)) * K
                                           + MulQ(wz, vy)))
        /\ vy' = IF vx' > Eps
                 THEN vy + MulQ(deltaT, MulDiv(MulQ(Fyf, Cos(df)) + Fyr, K, m)
                                          - MulQ(wz, vx))
                 ELSE 0
        /\ wz' = IF vx' > Eps
                 THEN wz + MulQ(deltaT, MulDiv(MulQ(MulQ(lf, Fyf), Cos(df))
                                                 - MulQ(lr, Fyr), K, Iz))
                 ELSE 0
        /\ acc' = MulQ(5 * (acc_des - acc), deltaT) + acc
        /\ df' = df]_vars

\* a sub-step has just integrated a state in which the yaw rate, the
\* lateral speed and the steering angle were all at work
C9_Witness ==
    /\ pc = "lag" /\ steps >= 3
    /\ vx > Eps /\ vy # 0 /\ wz # 0 /\ df # 0 /\ psi # Psi0

\* C10: whenever vx <= 1e-6 in a committed state, vy and wz are exactly 0;
\* and at such a speed the slip angles and the lateral forces are 0.
C10_NearStop ==
    /\ vx <= Eps => (vy = 0 /\ wz = 0)
    /\ Abs(vx) <= Eps => (alpha_f = 0 /\ alpha_r = 0 /\ Fyf = 0 /\ Fyr = 0)

\* the vehicle has turned (so its yaw rate was not 0) and has then been
\* braked to a stop
C10_Witness ==
    /\ steps > 0 /\ vx <= Eps
    /\ psi # Psi0 /\ X # X0 /\ acc < 0

====
